---------------------------- MODULE Spec2Model ----------------------------
(***************************************************************************)
(* A model of graphcast/data_utils.py: the lead-time normaliser, the time  *)
(* window extractor, the derived-variable injector, the dataset extender   *)
(* and the two request orchestrators.                                      *)
(*                                                                         *)
(* Durations and timestamps are integers counting nanoseconds, the         *)
(* resolution pandas and xarray use.  A labelled array is a record         *)
(* [dims, shape, data] whose data maps every index tuple to a value; a     *)
(* dataset is a record of coordinates and named arrays.  A call that       *)
(* raises is a result whose status names the exception.                    *)
(***************************************************************************)
EXTENDS Integers, Sequences, FiniteSets, TLC

VARIABLES op, dataset, args, result

vars == <<op, dataset, args, result>>

(***************************************************************************)
(* Bounds of the model.                                                    *)
(***************************************************************************)
MaxSteps == 4
MaxLeads == 2
MaxCalls == 2

MaxRequired == 4

(***************************************************************************)
(* Program constants.                                                      *)
(***************************************************************************)
SEC_PER_DAY == 86400
\* SEC_PER_DAY * _AVG_DAY_PER_YEAR = 31556925.216 s, kept to whole seconds.
AVG_SEC_PER_YEAR == 31556925
\* datetime64[ns] -> datetime64[s]
NsPerSec == 1000000000
\* pd.Timedelta units
NsPerUs == 1000
\* degrees in a full turn: np.deg2rad(longitude) / (2 * np.pi)
DegPerTurn == 360
\* required_number_steps = 3 in the climate orchestrator
ClimateSteps == 3

DAY_PROGRESS == "day_progress"
YEAR_PROGRESS == "year_progress"
TISR == "toa_incident_solar_radiation"
DERIVED_VARS ==
  {"day_progress", "day_progress_sin", "day_progress_cos",
   "year_progress", "year_progress_sin", "year_progress_cos"}

(***************************************************************************)
(* Sequences.                                                              *)
(***************************************************************************)
Range(s) == {s[i] : i \in 1..Len(s)}

Contains(s, x) == \E i \in 1..Len(s) : s[i] = x

\* tuple.index(x): the first position holding x
IndexOf(s, x) == CHOOSE i \in 1..Len(s) : s[i] = x /\ \A j \in 1..(i-1) : s[j] # x

\* s[k:] with k counted from zero
DropFirst(s, k) == IF Len(s) <= k THEN <<>> ELSE SubSeq(s, k + 1, Len(s))

Min(a, b) == IF a <= b THEN a ELSE b

SeqsUpTo(S, k) == UNION {[1..m -> S] : m \in 0..k}

(***************************************************************************)
(* pd.Timedelta: a timedelta-like value is a count and a unit.             *)
(***************************************************************************)
None == [n |-> 0, unit |-> "None"]

IsNone(x) == x.unit = "None"

TD(k, u) == [n |-> k, unit |-> u]

Timedelta(x) == IF x.unit = "us" THEN x.n * NsPerUs ELSE x.n


(***************************************************************************)
(* Lead-time specifications: a single value, a collection, or a slice.     *)
(***************************************************************************)
Single(x) == [kind |-> "single", value |-> x]

List(xs) == [kind |-> "list", values |-> xs]

Slice(a, b, c) == [kind |-> "slice", start |-> a, stop |-> b, step |-> c]

\* list.sort(): insertion of each element into the sorted prefix
RECURSIVE InsertSorted(_, _)
InsertSorted(x, s) ==
  IF s = <<>> THEN <<x>>
  ELSE IF x < Head(s) THEN <<x>> \o s
  ELSE <<Head(s)>> \o InsertSorted(x, Tail(s))

RECURSIVE SortList(_)
SortList(s) == IF s = <<>> THEN <<>> ELSE InsertSorted(s[Len(s)], SortList(SubSeq(s, 1, Len(s) - 1)))

\* [pd.Timedelta(x) for x in target_lead_times]
ToTimedeltas(xs) == [i \in 1..Len(xs) |-> Timedelta(xs[i])]

\* A mutated normaliser: duplicates are dropped before sorting.
RECURSIVE Dedup(_)
Dedup(s) ==
  IF s = <<>> THEN <<>>
  ELSE LET r == Dedup(SubSeq(s, 1, Len(s) - 1))
       IN IF Contains(r, s[Len(s)]) THEN r ELSE Append(r, s[Len(s)])

NormalizeListDedup(xs) == SortList(Dedup(ToTimedeltas(xs)))

\* lines 334-335: coerce to durations, then sort ascending
NormalizeList(xs) == SortList(ToTimedeltas(xs))

\* A mutated slice default: an unspecified start becomes zero.
DefaultSliceStartZero(sl) ==
  IF IsNone(sl.start) THEN Slice(TD(0, "ns"), sl.stop, sl.step) ELSE sl

\* lines 320-325: an unspecified start becomes one nanosecond
DefaultSliceStart(sl) ==
  IF IsNone(sl.start) THEN Slice(TD(1, "ns"), sl.stop, sl.step) ELSE sl

\* _process_target_lead_times_and_get_duration
ProcessTargetLeadTimes(tlt) ==
  IF tlt.kind = "slice"
  THEN LET sl == DefaultSliceStart(tlt)
       IN [status |-> "ok", lead_times |-> sl, target_duration |-> Timedelta(sl.stop)]
  ELSE LET xs == IF tlt.kind = "single" THEN <<tlt.value>> ELSE tlt.values
           ts == NormalizeList(xs)
       IN IF ts = <<>>
          THEN [status |-> "IndexError", where |-> "target_lead_times[-1]"]
          ELSE [status |-> "ok",
                lead_times |-> List([i \in 1..Len(ts) |-> TD(ts[i], "ns")]),
                target_duration |-> ts[Len(ts)]]

(***************************************************************************)
(* Labelled arrays (xarray.DataArray over numpy / dask data).              *)
(***************************************************************************)
MaxOf(shape) == IF shape = <<>> THEN 0 ELSE CHOOSE m \in Range(shape) : \A k \in Range(shape) : k <= m

\* every index tuple of an array of this shape (indices count from one)
Indices(shape) ==
  {ix \in [1..Len(shape) -> 1..MaxOf(shape)] : \A k \in 1..Len(shape) : ix[k] <= shape[k]}

HasDim(a, d) == Contains(a.dims, d)

\* the array's length along dimension d
SizeOf(a, d) == a.shape[IndexOf(a.dims, d)]

\* positional selection along one dimension: isel(d=positions)
Take(a, d, positions) ==
  IF ~HasDim(a, d) THEN a
  ELSE LET k == IndexOf(a.dims, d)
           shape == [a.shape EXCEPT ![k] = Len(positions)]
       IN [dims |-> a.dims, shape |-> shape,
           data |-> [ix \in Indices(shape) |-> a.data[[ix EXCEPT ![k] = positions[ix[k]]]]]]

\* dask.array.zeros(shape)
Zeros(dims, shape) == [dims |-> dims, shape |-> shape, data |-> [ix \in Indices(shape) |-> 0]]

\* numpy broadcasting of a value of shape vs onto a region of shape rs (same rank)
Broadcastable(vs, rs) ==
  /\ Len(vs) = Len(rs)
  /\ \A k \in 1..Len(rs) : vs[k] = rs[k] \/ vs[k] = 1

(***************************************************************************)
(* Datasets (xarray.Dataset): the coordinates present, their values, and   *)
(* the data variables.  The datetime coordinate has dims (batch, time)     *)
(* when batched and (time,) otherwise; values holds it along time.         *)
(***************************************************************************)
Names(ds) == DOMAIN ds.vars

\* the datetime field of a dataset without that coordinate
NoDatetime == [batched |-> FALSE, values |-> <<>>]

HasCoord(ds, c) == c \in ds.coords

\* Dataset.dims: the dimensions of every variable and coordinate
DimsOf(ds) ==
  UNION {Range(ds.vars[v].dims) : v \in Names(ds)}
    \cup (ds.coords \ {"datetime"})
    \cup (IF HasCoord(ds, "datetime")
          THEN (IF ds.datetime.batched THEN {"batch", "time"} ELSE {"time"})
          ELSE {})

\* dataset.time.shape[0]
NumSteps(ds) == Len(ds.time)

\* the length of the batch dimension
BatchSize(ds) ==
  IF \E v \in Names(ds) : HasDim(ds.vars[v], "batch")
  THEN LET v == CHOOSE v \in Names(ds) : HasDim(ds.vars[v], "batch")
       IN SizeOf(ds.vars[v], "batch")
  ELSE 1

\* Dataset.drop_vars of data variables that are present
DropVars(ds, names) ==
  [ds EXCEPT !.vars = [v \in Names(ds) \ names |-> ds.vars[v]]]

\* Dataset.update(mapping)
Update(ds, new) ==
  [ds EXCEPT !.vars = [v \in Names(ds) \cup DOMAIN new |->
                         IF v \in DOMAIN new THEN new[v] ELSE ds.vars[v]]]

\* Dataset.isel(time=positions)
ISelTime(ds, positions) ==
  [ds EXCEPT !.time = [i \in 1..Len(positions) |-> ds.time[positions[i]]],
             !.datetime = IF HasCoord(ds, "datetime")
                          THEN [@ EXCEPT !.values = [i \in 1..Len(positions) |-> @[positions[i]]]]
                          ELSE @,
             !.vars = [v \in Names(ds) |-> Take(ds.vars[v], "time", positions)]]

\* Dataset[list(names)]
Project(ds, names) == [ds EXCEPT !.vars = [v \in names |-> ds.vars[v]]]

(***************************************************************************)
(* Progress features.                                                      *)
(***************************************************************************)
\* np.mod(seconds / SEC_PER_DAY / _AVG_DAY_PER_YEAR, 1.0), as the seconds
\* elapsed in the current average year
get_year_progress(seconds) == seconds % AVG_SEC_PER_YEAR

\* np.mod(np.mod(seconds, SEC_PER_DAY) / SEC_PER_DAY + longitude / 360, 1.0),
\* as seconds of the local day
get_day_progress(seconds, longitude) ==
  ((seconds % SEC_PER_DAY) + longitude * (SEC_PER_DAY \div DegPerTurn)) % SEC_PER_DAY

\* np.sin / np.cos of the phase, left uninterpreted
SinOf(p) == <<"sin", p>>

CosOf(p) == <<"cos", p>>

\* featurize_progress: the progress array with its sine and cosine
featurize_progress(name, dims, progress) ==
  IF Len(dims) # Len(progress.shape)
  THEN [status |-> "ValueError", where |-> "featurize_progress"]
  ELSE [status |-> "ok",
        features |->
          [v \in {name, name \o "_sin", name \o "_cos"} |->
             [dims |-> dims, shape |-> progress.shape,
              data |-> [ix \in Indices(progress.shape) |->
                          IF v = name THEN progress.data[ix]
                          ELSE IF v = name \o "_sin" THEN SinOf(progress.data[ix])
                          ELSE CosOf(progress.data[ix])]]]]

\* data.coords["datetime"].data.astype("datetime64[s]").astype(np.int64)
SecondsSinceEpoch(ds) == [i \in 1..Len(ds.datetime.values) |-> ds.datetime.values[i] \div NsPerSec]

\* the shape of the datetime coordinate's data
DatetimeShape(ds) ==
  IF ds.datetime.batched THEN <<1, Len(ds.datetime.values)>> ELSE <<Len(ds.datetime.values)>>

\* A mutated year-progress step: the features are recomputed even when present.
AddYearProgressAlways(ds) ==
  LET sec == SecondsSinceEpoch(ds)
      shape == DatetimeShape(ds)
      batch_dim == IF "batch" \in DimsOf(ds) THEN <<"batch">> ELSE <<>>
      progress == [shape |-> shape,
                   data |-> [ix \in Indices(shape) |-> get_year_progress(sec[ix[Len(shape)]])]]
      f == featurize_progress(YEAR_PROGRESS, batch_dim \o <<"time">>, progress)
  IN IF f.status # "ok" THEN [status |-> f.status, where |-> f.where, ds |-> ds]
     ELSE [status |-> "ok", ds |-> Update(ds, f.features)]

\* lines 160-168
AddYearProgress(ds) ==
  IF YEAR_PROGRESS \in Names(ds) THEN [status |-> "ok", ds |-> ds]
  ELSE LET sec == SecondsSinceEpoch(ds)
           shape == DatetimeShape(ds)
           batch_dim == IF "batch" \in DimsOf(ds) THEN <<"batch">> ELSE <<>>
           progress == [shape |-> shape,
                        data |-> [ix \in Indices(shape) |-> get_year_progress(sec[ix[Len(shape)]])]]
           f == featurize_progress(YEAR_PROGRESS, batch_dim \o <<"time">>, progress)
       IN IF f.status # "ok" THEN [status |-> f.status, where |-> f.where, ds |-> ds]
          ELSE [status |-> "ok", ds |-> Update(ds, f.features)]

\* lines 171-180
AddDayProgress(ds) ==
  IF DAY_PROGRESS \in Names(ds) THEN [status |-> "ok", ds |-> ds]
  ELSE LET sec == SecondsSinceEpoch(ds)
           shape == DatetimeShape(ds) \o <<Len(ds.lon)>>
           r == Len(shape)
           batch_dim == IF "batch" \in DimsOf(ds) THEN <<"batch">> ELSE <<>>
           progress == [shape |-> shape,
                        data |-> [ix \in Indices(shape) |->
                                    get_day_progress(sec[ix[r - 1]], ds.lon[ix[r]])]]
           f == featurize_progress(DAY_PROGRESS, batch_dim \o <<"time">> \o <<"lon">>, progress)
       IN IF f.status # "ok" THEN [status |-> f.status, where |-> f.where, ds |-> ds]
          ELSE [status |-> "ok", ds |-> Update(ds, f.features)]

\* add_derived_vars: the dataset after the in-place update, or the error
add_derived_vars(ds) ==
  IF ~HasCoord(ds, "datetime") \/ ~HasCoord(ds, "lon")
  THEN [status |-> "ValueError", where |-> "coords", ds |-> ds]
  ELSE LET y == AddYearProgress(ds)
       IN IF y.status # "ok" THEN y ELSE AddDayProgress(y.ds)

\* add_tisr_var: the solar computation is external; its values are uninterpreted
add_tisr_var(ds) ==
  IF TISR \in Names(ds) THEN [status |-> "ok", ds |-> ds]
  ELSE IF ~HasCoord(ds, "datetime") \/ ~HasCoord(ds, "lat") \/ ~HasCoord(ds, "lon")
  THEN [status |-> "ValueError", where |-> "coords", ds |-> ds]
  ELSE IF "batch" \in DimsOf(ds) /\ BatchSize(ds) # 1
  THEN [status |-> "ValueError", where |-> "squeeze", ds |-> ds]
  ELSE LET sec == SecondsSinceEpoch(ds)
           hasBatch == "batch" \in DimsOf(ds)
           dims == (IF hasBatch THEN <<"batch">> ELSE <<>>) \o <<"time", "lat", "lon">>
           shape == (IF hasBatch THEN <<1>> ELSE <<>>) \o <<Len(sec), Len(ds.lat), Len(ds.lon)>>
           r == Len(shape)
           tisr == [dims |-> dims, shape |-> shape,
                    data |-> [ix \in Indices(shape) |->
                                <<"tisr", sec[ix[r - 2]], ds.lat[ix[r - 1]], ds.lon[ix[r]]>>]]
       IN [status |-> "ok", ds |-> Update(ds, [v \in {TISR} |-> tisr])]

(***************************************************************************)
(* Label-based selection on the time index (pandas / xarray .sel).         *)
(***************************************************************************)
\* a plain integer, as the step of a slice
IntStep(k) == [n |-> k, unit |-> "int"]

\* the positions first, first + stride, ... not beyond last
Stride(first, last, stride) ==
  IF last < first THEN <<>>
  ELSE [i \in 1..((last - first) \div stride + 1) |-> first + (i - 1) * stride]

\* Index.slice_indexer on an ascending index: both endpoints inclusive,
\* the step a positional stride
SlicePositions(time, lo, hi, step) ==
  LET first == Cardinality({i \in 1..Len(time) : time[i] < lo}) + 1
      last == Cardinality({i \in 1..Len(time) : time[i] <= hi})
  IN Stride(first, last, IF IsNone(step) THEN 1 ELSE step.n)

\* .sel with a list of labels: every label must be in the index
LabelsPresent(time, labels) == \A k \in 1..Len(labels) : Contains(time, labels[k])

LabelPositions(time, labels) == [k \in 1..Len(labels) |-> IndexOf(time, labels[k])]

\* A mutated recentring: zero is put at the first timestep.
RecentreAtFirst(time, target_duration) ==
  [i \in 1..Len(time) |-> time[i] + target_duration - time[1]]

\* line 299: time + target_duration - time[-1]
RecentreTime(time, target_duration) ==
  [i \in 1..Len(time) |-> time[i] + target_duration - time[Len(time)]]

\* A mutated input window: both endpoints of the label slice are kept.
InputPositionsClosed(time, input_duration) ==
  SlicePositions(time, 0 - input_duration, 0, None)

\* lines 304-309: slice(-input_duration + epsilon, zero)
InputPositions(time, input_duration) ==
  SlicePositions(time, 0 - input_duration + 1, 0, None)

\* A mutated climate window: the window starts one timestep late.
ClimateWindowShifted(ds) ==
  [inputs |-> ISelTime(ds, Stride(2, Min(3, NumSteps(ds)), 1)),
   targets |-> ISelTime(ds, Stride(4, Min(4, NumSteps(ds)), 1))]

\* lines 293-294: isel(time=slice(0, 2)) and isel(time=slice(2, 3))
ClimateWindow(ds) ==
  [inputs |-> ISelTime(ds, Stride(1, Min(2, NumSteps(ds)), 1)),
   targets |-> ISelTime(ds, Stride(3, Min(3, NumSteps(ds)), 1))]

\* extract_input_target_times
extract_input_target_times(ds, input_duration, target_lead_times, climate) ==
  LET p == ProcessTargetLeadTimes(target_lead_times)
  IN IF p.status # "ok" THEN p
     ELSE IF climate
     THEN LET w == ClimateWindow(ds)
          IN [status |-> "ok", inputs |-> w.inputs, targets |-> w.targets]
     ELSE LET lt == p.lead_times
              shifted == [ds EXCEPT !.time = RecentreTime(ds.time, p.target_duration)]
              time == shifted.time
              labels == IF lt.kind = "list" THEN ToTimedeltas(lt.values) ELSE <<>>
          IN IF lt.kind = "list" /\ ~LabelsPresent(time, labels)
             THEN [status |-> "KeyError", where |-> "time"]
             ELSE [status |-> "ok",
                   inputs |-> ISelTime(shifted, InputPositions(time, Timedelta(input_duration))),
                   targets |->
                     ISelTime(shifted,
                              IF lt.kind = "list" THEN LabelPositions(time, labels)
                              ELSE SlicePositions(time, Timedelta(lt.start),
                                                  Timedelta(lt.stop), lt.step))]

(***************************************************************************)
(* extract_inputs_targets_forcings.  Variable tuples are sets of names;    *)
(* pressure_levels is a sequence.                                          *)
(***************************************************************************)
\* dataset.sel(level=list(pressure_levels))
SelLevel(ds, pressure_levels) ==
  IF ~HasCoord(ds, "level") \/ ~LabelsPresent(ds.level, pressure_levels)
  THEN [status |-> "KeyError", where |-> "level"]
  ELSE LET pos == LabelPositions(ds.level, pressure_levels)
       IN [status |-> "ok",
           ds |-> [ds EXCEPT !.level = pressure_levels,
                             !.vars = [v \in Names(ds) |-> Take(ds.vars[v], "level", pos)]]]

\* lines 357-360: compute the requested forcings
ComputeForcings(ds, forcing_variables) ==
  LET d == IF forcing_variables \cap DERIVED_VARS # {}
           THEN add_derived_vars(ds) ELSE [status |-> "ok", ds |-> ds]
  IN IF d.status # "ok" THEN d
     ELSE IF TISR \in forcing_variables THEN add_tisr_var(d.ds) ELSE d

\* line 363: dataset.drop_vars("datetime")
DropDatetime(ds) ==
  IF ~HasCoord(ds, "datetime")
  THEN [status |-> "ValueError", where |-> "drop_vars"]
  ELSE [status |-> "ok", ds |-> [ds EXCEPT !.coords = @ \ {"datetime"}, !.datetime = NoDatetime]]

\* A mutated overlap check: only a forcing set inside the target set is refused.
OverlapSubset(forcing_variables, target_variables) ==
  forcing_variables # {} /\ forcing_variables \subseteq target_variables

\* line 372: set(forcing_variables) & set(target_variables)
Overlap(forcing_variables, target_variables) ==
  forcing_variables \cap target_variables # {}

\* lines 372-383: the overlap check, then the three projections
ValidateAndProject(w, input_variables, target_variables, forcing_variables) ==
  IF Overlap(forcing_variables, target_variables)
  THEN [status |-> "ValueError", where |-> "overlap"]
  ELSE IF ~(input_variables \subseteq Names(w.inputs))
          \/ ~(forcing_variables \subseteq Names(w.targets))
          \/ ~(target_variables \subseteq Names(w.targets))
  THEN [status |-> "KeyError", where |-> "variables"]
  ELSE [status |-> "ok",
        inputs |-> Project(w.inputs, input_variables),
        targets |-> Project(w.targets, target_variables),
        forcings |-> Project(w.targets, forcing_variables)]

extract_inputs_targets_forcings(ds, input_variables, target_variables, forcing_variables, pressure_levels, input_duration, target_lead_times, climate) ==
  LET l == SelLevel(ds, pressure_levels)
  IN IF l.status # "ok" THEN l
     ELSE LET f == ComputeForcings(l.ds, forcing_variables)
          IN IF f.status # "ok" THEN [status |-> f.status, where |-> f.where]
             ELSE LET d == DropDatetime(f.ds)
                  IN IF d.status # "ok" THEN d
                     ELSE LET w == extract_input_target_times(d.ds, input_duration,
                                                              target_lead_times, climate)
                          IN IF w.status # "ok" THEN w
                             ELSE ValidateAndProject(w, input_variables, target_variables,
                                                     forcing_variables)

(***************************************************************************)
(* extend_dataset_in_time.                                                 *)
(***************************************************************************)
SUPPORTED_FORCING_VARS ==
  {"year_progress_sin", "year_progress_cos", "day_progress_sin", "day_progress_cos"}

\* lines 410-413: every interval equals time[1] - time[0]
RegularlySpaced(time) ==
  \A i \in 1..(Len(time) - 1) : time[i + 1] - time[i] = time[2] - time[1]

\* A mutated extension of the time axis: the start offset is forgotten.
ExtendedTimeFromZero(time, required_number_of_steps) ==
  [i \in 1..required_number_of_steps |-> (i - 1) * (time[2] - time[1])]

\* lines 409-419: np.arange(required_number_of_steps) * timestep + time[0]
ExtendedTime(time, required_number_of_steps) ==
  [i \in 1..required_number_of_steps |-> (i - 1) * (time[2] - time[1]) + time[1]]

\* lines 428-434: the extended datetime row, anchored at the first datetime
ExtendedDatetime(extended_time, first_datetime) ==
  LET normalized_extended_time ==
        IF extended_time[1] # 0
        THEN [i \in 1..Len(extended_time) |-> extended_time[i] - extended_time[1]]
        ELSE extended_time
  IN [i \in 1..Len(extended_time) |-> normalized_extended_time[i] + first_datetime]

\* line 435: np.all(datetime[0] == extended_datetime[: datetime.shape[1]]);
\* rows of different lengths compare equal only by broadcasting a single entry
DatetimePrefixMatches(datetime, extended_datetime) ==
  LET prefix == SubSeq(extended_datetime, 1, Min(Len(datetime), Len(extended_datetime)))
  IN IF Len(prefix) = Len(datetime) THEN \A i \in 1..Len(datetime) : datetime[i] = prefix[i]
     ELSE IF Len(prefix) = 1 THEN \A i \in 1..Len(datetime) : datetime[i] = prefix[1]
     ELSE FALSE

\* A mutated allocation: the time dimension keeps its original length.
extend_time_same_length(data_array, required_number_of_steps) ==
  IF ~HasDim(data_array, "time") THEN data_array
  ELSE Zeros(data_array.dims, data_array.shape)

\* lines 444-462: a zero array with the time dimension resized
extend_time(data_array, required_number_of_steps) ==
  IF ~HasDim(data_array, "time") THEN data_array
  ELSE Zeros(data_array.dims,
             [data_array.shape EXCEPT ![IndexOf(data_array.dims, "time")] = required_number_of_steps])

\* line 487: empty_array[:, :max_t] = array, the value broadcast onto the region
AssignPrefix(empty_array, array, max_t) ==
  LET region == [empty_array.shape EXCEPT ![2] = Min(max_t, @)]
  IN IF ~Broadcastable(array.shape, region)
     THEN [status |-> "ValueError", where |-> "setitem"]
     ELSE [status |-> "ok",
           array |-> [empty_array EXCEPT !.data =
                        [ix \in DOMAIN @ |->
                           IF ix[2] <= max_t
                           THEN array.data[[k \in 1..Len(ix) |->
                                              IF array.shape[k] = 1 THEN 1 ELSE ix[k]]]
                           ELSE @[ix]]]]

\* A mutated copy: a resized array is never filled from the original.
copy_data_skip(empty_array, array) ==
  IF empty_array.shape = array.shape THEN [status |-> "ok", array |-> array]
  ELSE [status |-> "ok", array |-> empty_array]

\* lines 468-490
copy_data(empty_array, array) ==
  IF empty_array.shape = array.shape THEN [status |-> "ok", array |-> array]
  ELSE IF DropFirst(empty_array.shape, 2) = DropFirst(array.shape, 2)
  THEN IF Len(array.shape) < 2 THEN [status |-> "IndexError", where |-> "array.shape[1]"]
       ELSE AssignPrefix(empty_array, array, array.shape[2])
  ELSE [status |-> "ok", array |-> empty_array]

\* lines 465 and 493: the two passes of xarray_tree.map_structure
ExtendAndCopy(ds, required_number_of_steps) ==
  LET copied == [v \in Names(ds) |->
                   copy_data(extend_time(ds.vars[v], required_number_of_steps), ds.vars[v])]
  IN IF \E v \in Names(ds) : copied[v].status # "ok"
     THEN LET v == CHOOSE v \in Names(ds) : copied[v].status # "ok"
          IN [status |-> copied[v].status, where |-> copied[v].where]
     ELSE [status |-> "ok", vars |-> [v \in Names(ds) |-> copied[v].array]]

\* lines 498-508: drop the forcing variables and their base variables
DropForcings(ds) ==
  DropVars(ds, SUPPORTED_FORCING_VARS \cup {"day_progress", "year_progress"})

extend_dataset_in_time(ds, required_number_of_steps, forcing_variables) ==
  IF forcing_variables # SUPPORTED_FORCING_VARS
  THEN [status |-> "AssertionError", where |-> "forcing_variables"]
  ELSE IF NumSteps(ds) < 2 THEN [status |-> "IndexError", where |-> "time[1]"]
  ELSE IF ~RegularlySpaced(ds.time) THEN [status |-> "AssertionError", where |-> "timestep"]
  ELSE LET extended_time == ExtendedTime(ds.time, required_number_of_steps)
       IN IF HasCoord(ds, "datetime") /\ ~ds.datetime.batched
          THEN [status |-> "IndexError", where |-> "datetime[0][0]"]
          ELSE LET extended_datetime ==
                     IF HasCoord(ds, "datetime")
                     THEN ExtendedDatetime(extended_time, ds.datetime.values[1])
                     ELSE <<>>
               IN IF HasCoord(ds, "datetime")
                     /\ ~DatetimePrefixMatches(ds.datetime.values, extended_datetime)
                  THEN [status |-> "AssertionError", where |-> "datetime"]
                  ELSE LET c == ExtendAndCopy(ds, required_number_of_steps)
                       IN IF c.status # "ok" THEN c
                          ELSE LET built == [ds EXCEPT
                                              !.time = extended_time,
                                              !.datetime =
                                                 IF HasCoord(ds, "datetime")
                                                 THEN [batched |-> TRUE, values |-> extended_datetime]
                                                 ELSE NoDatetime,
                                              !.vars = c.vars]
                                   a == add_derived_vars(DropForcings(built))
                               IN IF a.status # "ok"
                                  THEN [status |-> a.status, where |-> a.where]
                                  ELSE [status |-> "ok", ds |-> a.ds]

(***************************************************************************)
(* extract_inputs_targets_forcings_climate.  The step count computed from  *)
(* the target duration (line 537) is overwritten at line 539 and is not    *)
(* modelled.  The result records whether the dataset was extended.         *)
(***************************************************************************)

\* line 542: required_number_steps < dataset.time.shape[0]
NeedsNoExtension(ds, required_number_steps) == required_number_steps < NumSteps(ds)

\* what the climate orchestrator did: the outcome and whether it extended
Outcome(r, extended) == [status |-> r.status, extended |-> extended, out |-> r]

extract_inputs_targets_forcings_climate(ds, input_variables, target_variables, forcing_variables, pressure_levels, input_duration, target_lead_times) ==
  LET p == ProcessTargetLeadTimes(target_lead_times)
      required_number_steps == ClimateSteps
  IN IF p.status # "ok" THEN Outcome(p, FALSE)
     ELSE IF NeedsNoExtension(ds, required_number_steps)
     THEN Outcome(extract_inputs_targets_forcings(ds, input_variables, target_variables,
                    forcing_variables, pressure_levels, input_duration, p.lead_times, TRUE),
                  FALSE)
     ELSE LET e == extend_dataset_in_time(ds, required_number_steps, forcing_variables)
          IN IF e.status # "ok" THEN Outcome(e, TRUE)
             ELSE LET r == extract_inputs_targets_forcings(e.ds, input_variables,
                             target_variables, forcing_variables, pressure_levels,
                             input_duration, p.lead_times, TRUE)
                  IN IF r.status = "ok" /\ NumSteps(r.inputs) # 2
                     THEN Outcome([status |-> "AssertionError", where |-> "inputs"], TRUE)
                     ELSE Outcome(r, TRUE)

(***************************************************************************)
(* The datasets and arguments the operations are applied to.               *)
(***************************************************************************)
LON == <<0, 90>>

LAT == <<45>>

LEVEL == <<500, 850>>

\* the dimensions of each raw variable
VarDims(v) ==
  CASE v = "tp" -> <<"batch", "time">>
    [] v = "t2m" -> <<"batch", "time", "lon">>
    [] v = "z" -> <<"batch", "time", "level">>
    [] v = "land_sea_mask" -> <<"lat", "lon">>
    [] v = "ts" -> <<"time">>
    [] v = "tl" -> <<"time", "lon">>

DimSize(d, n) ==
  CASE d = "batch" -> 1
    [] d = "time" -> n
    [] d = "lon" -> Len(LON)
    [] d = "lat" -> Len(LAT)
    [] d = "level" -> Len(LEVEL)

VarCode(v) ==
  CASE v = "tp" -> 1 [] v = "t2m" -> 2 [] v = "z" -> 3
    [] v = "land_sea_mask" -> 4 [] v = "ts" -> 5 [] v = "tl" -> 6

\* raw data: non-zero and different at every index
RawArray(v, n) ==
  LET dims == VarDims(v)
      shape == [k \in 1..Len(dims) |-> DimSize(dims[k], n)]
  IN [dims |-> dims, shape |-> shape,
      data |-> [ix \in Indices(shape) |->
                  1000 * VarCode(v) + 100 * ix[1]
                    + (IF Len(ix) >= 2 THEN 10 * ix[2] ELSE 0)
                    + (IF Len(ix) >= 3 THEN ix[3] ELSE 0)]]

BaseVars == {"tp", "t2m", "z", "land_sea_mask"}

\* datetime modes: absent, consistent with time, inconsistent at the last
\* timestep, consistent but without a batch dimension
DatetimeModes == {"none", "ok", "bad", "unbatched"}

FirstDatetime == NsPerSec - 1

MakeTime(n, start, step, irregular) ==
  [i \in 1..n |-> start + (i - 1) * step + (IF irregular /\ i = n /\ n >= 3 THEN 1 ELSE 0)]

MakeDataset(n, start, step, irregular, dtmode, hasLon, names) ==
  LET time == MakeTime(n, start, step, irregular)
  IN [time |-> time,
      coords |-> {"time", "lat", "level"}
                   \cup (IF hasLon THEN {"lon"} ELSE {})
                   \cup (IF dtmode = "none" THEN {} ELSE {"datetime"}),
      datetime |-> IF dtmode = "none" THEN NoDatetime
                   ELSE [batched |-> dtmode # "unbatched",
                         values |-> [i \in 1..n |->
                                       FirstDatetime + time[i] - time[1]
                                         + (IF dtmode = "bad" /\ i = n /\ n >= 2 THEN 1 ELSE 0)]],
      lon |-> LON, lat |-> LAT, level |-> LEVEL,
      vars |-> [v \in names |-> RawArray(v, n)]]

\* a dataset that already carries its derived variables
WithDerived(ds) == LET a == add_derived_vars(ds) IN IF a.status = "ok" THEN a.ds ELSE ds

Pending == [status |-> "pending"]

\* timedelta-like values: a small count of nanoseconds or microseconds
Durations == {TD(k, u) : k \in 0..2, u \in {"ns", "us"}}

LeadTimeSpecs ==
  {Single(x) : x \in Durations}
    \cup {List(xs) : xs \in SeqsUpTo(Durations, MaxLeads)}
    \cup {Slice(a, b, c) : a \in Durations \cup {None}, b \in Durations, c \in {None, IntStep(2)}}

\* the datasets the window extractor is applied to
WindowDatasets ==
  {MakeDataset(n, start, step, FALSE, "ok", TRUE, {"tp", "land_sea_mask"}) :
     n \in 1..MaxSteps, start \in {-1, 0}, step \in {1, NsPerUs}}

(***************************************************************************)
(* Operations.  op names the function applied; the call is pending until   *)
(* its action has produced the result.                                     *)
(***************************************************************************)
InitLeadTimes ==
  /\ op = "process_target_lead_times"
  /\ dataset \in {MakeDataset(1, 0, 1, FALSE, "ok", TRUE, {"tp"})}
  /\ args \in {[target_lead_times |-> t] : t \in LeadTimeSpecs}
  /\ result = Pending

CallProcessTargetLeadTimes ==
  /\ op = "process_target_lead_times"
  /\ result = Pending
  /\ result' = ProcessTargetLeadTimes(args.target_lead_times)
  /\ UNCHANGED <<op, dataset, args>>

InitWindow ==
  /\ op = "extract_input_target_times"
  /\ dataset \in WindowDatasets
  /\ args \in [input_duration : Durations, target_lead_times : LeadTimeSpecs, climate : BOOLEAN]
  /\ result = Pending

CallExtractInputTargetTimes ==
  /\ op = "extract_input_target_times"
  /\ result = Pending
  /\ result' = extract_input_target_times(dataset, args.input_duration,
                                          args.target_lead_times, args.climate)
  /\ UNCHANGED <<op, dataset, args>>

\* the datasets the orchestrator is applied to
OrchestratorDatasets ==
  {MakeDataset(n, 0, 1, FALSE, dtmode, hasLon, BaseVars) :
     n \in 1..MaxSteps, dtmode \in {"ok", "none", "unbatched"}, hasLon \in BOOLEAN}

\* a few lead-time specifications of every kind, the empty collection among them
FewLeadTimeSpecs ==
  {Single(TD(1, "ns")), Single(TD(1, "us")), List(<<TD(2, "ns"), TD(1, "ns")>>),
   List(<<>>), Slice(None, TD(2, "ns"), None)}

InitOrchestrator ==
  /\ op = "extract_inputs_targets_forcings"
  /\ dataset \in OrchestratorDatasets
  /\ args \in [input_variables : {{"tp", "t2m"}, {"tp", "u10"}},
               target_variables : {{"t2m"}, {"t2m", "z"}, {"t2m", "year_progress_sin"}},
               forcing_variables : {{}, {"t2m"}, {"tp"}, SUPPORTED_FORCING_VARS, {TISR},
                                    {"year_progress_sin", "t2m"}},
               pressure_levels : {<<850, 500>>, <<1000>>},
               input_duration : {TD(1, "ns"), TD(2, "ns")},
               target_lead_times : FewLeadTimeSpecs,
               climate : BOOLEAN]
  /\ result = Pending

CallExtractInputsTargetsForcings ==
  /\ op = "extract_inputs_targets_forcings"
  /\ result = Pending
  /\ result' = extract_inputs_targets_forcings(dataset, args.input_variables,
                  args.target_variables, args.forcing_variables, args.pressure_levels,
                  args.input_duration, args.target_lead_times, args.climate)
  /\ UNCHANGED <<op, dataset, args>>

\* the datasets the extender is applied to: regular and irregular time axes with
\* zero, positive and negative start offsets, the datetime modes, with and
\* without longitudes, with time-leading variables and stale derived variables
ExtenderDatasets ==
  LET plain == {MakeDataset(n, start, step, irregular, dtmode, hasLon, names) :
                  n \in 1..MaxSteps, start \in {-2, 0, 1}, step \in {1, 2},
                  irregular \in BOOLEAN, dtmode \in DatetimeModes, hasLon \in BOOLEAN,
                  names \in {BaseVars, BaseVars \cup {"ts"}, BaseVars \cup {"tl"}}}
  IN plain \cup {WithDerived(ds) : ds \in plain}

InitExtender ==
  /\ op = "extend_dataset_in_time"
  /\ dataset \in ExtenderDatasets
  /\ args \in [required_number_of_steps : 1..MaxRequired,
               forcing_variables : {SUPPORTED_FORCING_VARS, SUPPORTED_FORCING_VARS \cup {TISR}}]
  /\ result = Pending

CallExtendDatasetInTime ==
  /\ op = "extend_dataset_in_time"
  /\ result = Pending
  /\ result' = extend_dataset_in_time(dataset, args.required_number_of_steps,
                                      args.forcing_variables)
  /\ UNCHANGED <<op, dataset, args>>

\* the datasets the climate orchestrator is applied to
ClimateDatasets ==
  LET plain == {MakeDataset(n, start, 1, FALSE, dtmode, hasLon, BaseVars) :
                  n \in 1..MaxSteps, start \in {-1, 0}, dtmode \in {"ok", "none"},
                  hasLon \in BOOLEAN}
  IN plain \cup {WithDerived(ds) : ds \in plain}

InitClimate ==
  /\ op = "extract_inputs_targets_forcings_climate"
  /\ dataset \in ClimateDatasets
  /\ args \in [input_variables : {{"tp", "t2m"}},
               target_variables : {{"t2m"}, {"tp"}},
               forcing_variables : {{}, {"tp"}, SUPPORTED_FORCING_VARS},
               pressure_levels : {<<850, 500>>, <<1000>>},
               input_duration : {TD(1, "ns")},
               target_lead_times : FewLeadTimeSpecs]
  /\ result = Pending

CallExtractInputsTargetsForcingsClimate ==
  /\ op = "extract_inputs_targets_forcings_climate"
  /\ result = Pending
  /\ result' = extract_inputs_targets_forcings_climate(dataset, args.input_variables,
                  args.target_variables, args.forcing_variables, args.pressure_levels,
                  args.input_duration, args.target_lead_times)
  /\ UNCHANGED <<op, dataset, args>>

\* the year-progress and the day-progress features
YearFeatures == {YEAR_PROGRESS, YEAR_PROGRESS \o "_sin", YEAR_PROGRESS \o "_cos"}

DayFeatures == {DAY_PROGRESS, DAY_PROGRESS \o "_sin", DAY_PROGRESS \o "_cos"}

\* the dataset restricted to some of its variables
KeepVars(ds, names) == [ds EXCEPT !.vars = [v \in Names(ds) \cap names |-> ds.vars[v]]]

\* the dataset with values in its derived variables that are not the computed ones
Stale(ds) ==
  [ds EXCEPT !.vars = [v \in Names(ds) |->
                         IF v \in DERIVED_VARS
                         THEN [ds.vars[v] EXCEPT
                                 !.data = [ix \in DOMAIN @ |->
                                             IF v \in {YEAR_PROGRESS, DAY_PROGRESS} THEN 7
                                             ELSE <<"stale", 7>>]]
                         ELSE ds.vars[v]]]

\* the dataset without some of its coordinates
WithoutCoords(ds, cs) ==
  [ds EXCEPT !.coords = @ \ cs,
             !.datetime = IF "datetime" \in cs THEN NoDatetime ELSE @]

\* the datasets add_derived_vars is applied to: with none, all, one family or a
\* part of a family of the derived variables, fresh or stale, with a batched or an
\* unbatched datetime coordinate, with or without a batch dimension, and with or
\* without datetime and lon
DerivedDatasets ==
  LET full == {MakeDataset(n, start, 1, FALSE, dtmode, TRUE, BaseVars) :
                 n \in 1..MaxSteps, start \in {-1, 0}, dtmode \in {"ok", "unbatched"}}
               \cup {MakeDataset(n, 0, 1, FALSE, "unbatched", TRUE, {"ts", "tl", "land_sea_mask"}) :
                       n \in 1..MaxSteps}
      held == {{}, DERIVED_VARS, YearFeatures, DayFeatures, {YEAR_PROGRESS},
               {YEAR_PROGRESS \o "_sin", DAY_PROGRESS \o "_cos"}}
      variants == UNION {{KeepVars(WithDerived(ds), Names(ds) \cup names),
                          Stale(KeepVars(WithDerived(ds), Names(ds) \cup names))} :
                           ds \in full, names \in held}
  IN {WithoutCoords(ds, cs) : ds \in variants, cs \in SUBSET {"datetime", "lon"}}

InitDerived ==
  /\ op = "add_derived_vars"
  /\ dataset \in DerivedDatasets
  /\ args = [calls |-> 0, original |-> dataset]
  /\ result = Pending

\* add_derived_vars updates the dataset in place; result keeps the outcome and the
\* dataset as it was before the call
CallAddDerivedVars ==
  /\ op = "add_derived_vars"
  /\ args.calls < MaxCalls
  /\ LET r == add_derived_vars(dataset)
     IN /\ dataset' = r.ds
        /\ result' = [status |-> r.status, before |-> dataset]
  /\ args' = [args EXCEPT !.calls = @ + 1]
  /\ UNCHANGED op

SpecLeadTimes == InitLeadTimes /\ [][CallProcessTargetLeadTimes]_vars

SpecWindow == InitWindow /\ [][CallExtractInputTargetTimes]_vars

SpecOrchestrator == InitOrchestrator /\ [][CallExtractInputsTargetsForcings]_vars

SpecExtender == InitExtender /\ [][CallExtendDatasetInTime]_vars

SpecClimate == InitClimate /\ [][CallExtractInputsTargetsForcingsClimate]_vars

SpecDerived == InitDerived /\ [][CallAddDerivedVars]_vars

Init ==
  \/ InitLeadTimes
  \/ InitWindow
  \/ InitOrchestrator
  \/ InitExtender
  \/ InitClimate
  \/ InitDerived

Next ==
  \/ CallProcessTargetLeadTimes
  \/ CallExtractInputTargetTimes
  \/ CallExtractInputsTargetsForcings
  \/ CallExtendDatasetInTime
  \/ CallExtractInputsTargetsForcingsClimate
  \/ CallAddDerivedVars

Spec == Init /\ [][Next]_vars

(***************************************************************************)
(* Properties.                                                             *)
(***************************************************************************)
Done(name) == op = name /\ result.status # "pending"

Returned(name) == op = name /\ result.status = "ok"

\* how often x occurs in s
Count(s, x) == Cardinality({i \in 1..Len(s) : s[i] = x})

\* the elements of a set of integers in ascending order
RECURSIVE Ascending(_)
Ascending(S) ==
  IF S = {} THEN <<>>
  ELSE LET m == CHOOSE m \in S : \A k \in S : m <= k
       IN <<m>> \o Ascending(S \ {m})

\* the lead times of a single value or a collection, as durations
GivenLeadTimes(tlt) == ToTimedeltas(IF tlt.kind = "single" THEN <<tlt.value>> ELSE tlt.values)

\* C3: for a single lead time or a non-empty collection the normaliser returns
\* the same multiset of durations in ascending order, a single value as a
\* sequence of length one, and the maximum as the target duration.
C3_NormalizedList ==
  (op = "process_target_lead_times" /\ result.status # "pending"
     /\ args.target_lead_times.kind # "slice"
     /\ GivenLeadTimes(args.target_lead_times) # <<>>)
  => /\ result.status = "ok"
     /\ result.lead_times.kind = "list"
     /\ LET given == GivenLeadTimes(args.target_lead_times)
            out == ToTimedeltas(result.lead_times.values)
        IN /\ Len(out) = Len(given)
           /\ \A x \in Range(given) \cup Range(out) : Count(out, x) = Count(given, x)
           /\ \A i \in 1..(Len(out) - 1) : out[i] <= out[i + 1]
           /\ args.target_lead_times.kind = "single" => Len(out) = 1
           /\ result.target_duration \in Range(out)
           /\ \A x \in Range(out) : x <= result.target_duration

\* a collection given out of order and in mixed units
C3_Witness ==
  /\ Returned("process_target_lead_times")
  /\ args.target_lead_times = List(<<TD(1, "us"), TD(2, "ns")>>)
  /\ result.lead_times.values = <<TD(2, "ns"), TD(1000, "ns")>>

\* C4: for a slice the target duration is the stop value; an unspecified start
\* becomes one nanosecond (strictly after lead time 0) with stop and step kept,
\* and a slice with a start is returned unchanged.
C4_NormalizedSlice ==
  (op = "process_target_lead_times" /\ result.status # "pending"
     /\ args.target_lead_times.kind = "slice")
  => /\ result.status = "ok"
     /\ result.target_duration = Timedelta(args.target_lead_times.stop)
     /\ IsNone(args.target_lead_times.start)
          => /\ Timedelta(result.lead_times.start) = 1
             /\ result.lead_times.stop = args.target_lead_times.stop
             /\ result.lead_times.step = args.target_lead_times.step
             /\ result.lead_times.kind = "slice"
     /\ ~IsNone(args.target_lead_times.start)
          => result.lead_times = args.target_lead_times

C4_Witness ==
  /\ Returned("process_target_lead_times")
  /\ args.target_lead_times = Slice(None, TD(2, "us"), IntStep(2))
  /\ result.target_duration = 2000

\* the target duration of a lead-time specification: the stop of a slice,
\* the largest of a collection
TargetDurationOf(tlt) ==
  IF tlt.kind = "slice" THEN Timedelta(tlt.stop)
  ELSE LET given == GivenLeadTimes(tlt)
       IN CHOOSE m \in Range(given) : \A x \in Range(given) : x <= m

\* the lead time of timestep i: old_time + target_duration - old_time[last]
LeadTimeAt(i) ==
  dataset.time[i] + TargetDurationOf(args.target_lead_times) - dataset.time[Len(dataset.time)]

\* the dataset with its time coordinate replaced by the lead times
Recentred == [dataset EXCEPT !.time = [i \in 1..Len(dataset.time) |-> LeadTimeAt(i)]]

WindowReturned == Returned("extract_input_target_times") /\ ~args.climate

\* C1: in non-climate mode the inputs are exactly the timesteps whose lead time t
\* satisfies -input_duration < t <= 0, in order and with their data.
C1_InputWindow ==
  WindowReturned
  => result.inputs =
       ISelTime(Recentred,
                Ascending({i \in 1..Len(dataset.time) :
                             /\ 0 - Timedelta(args.input_duration) < LeadTimeAt(i)
                             /\ LeadTimeAt(i) <= 0}))

\* a timestep lies exactly input_duration before lead time 0 and is left out,
\* while the timestep at lead time 0 is kept
C1_Witness ==
  /\ WindowReturned
  /\ Timedelta(args.input_duration) > 0
  /\ \E i \in 1..Len(dataset.time) : LeadTimeAt(i) = 0 - Timedelta(args.input_duration)
  /\ Len(result.inputs.time) >= 2
  /\ result.inputs.time[Len(result.inputs.time)] = 0

\* the start of the target range: one nanosecond when unspecified
RangeStart(tlt) == IF IsNone(tlt.start) THEN 1 ELSE Timedelta(tlt.start)

\* the timesteps whose lead time lies in the closed range of a slice
InRange(tlt) ==
  Ascending({i \in 1..Len(dataset.time) :
               RangeStart(tlt) <= LeadTimeAt(i) /\ LeadTimeAt(i) <= Timedelta(tlt.stop)})

\* every k-th element of a sequence, from the first
EveryKth(s, k) == [j \in 1..((Len(s) + k - 1) \div k) |-> s[(j - 1) * k + 1]]

\* C2 as stated: the targets carry recentred times and are exactly the timesteps
\* at the normalized lead times (a collection) or in the closed range [start, stop]
\* (a slice).
C2_TargetsAsStated ==
  WindowReturned
  => LET tlt == args.target_lead_times
     IN /\ \A k \in 1..Len(result.targets.time) :
             \E i \in 1..Len(dataset.time) : result.targets.time[k] = LeadTimeAt(i)
        /\ tlt.kind = "slice" => result.targets = ISelTime(Recentred, InRange(tlt))
        /\ tlt.kind # "slice"
             => Range(result.targets.time) = Range(GivenLeadTimes(tlt))

\* C2, amended: the returned timesteps carry the recentred time
\* old_time + target_duration - old_time[last]; for a collection the targets are
\* the timesteps at the normalized lead times, one per lead time in ascending order;
\* for a slice they are the timesteps whose lead time lies in [start, stop], all of
\* them when the slice has no step and every step-th of them, from the first, when
\* it has one.
C2_Targets ==
  WindowReturned
  => LET tlt == args.target_lead_times
         out == result.targets.time
     IN /\ tlt.kind = "slice"
             => result.targets =
                  ISelTime(Recentred,
                           IF IsNone(tlt.step) THEN InRange(tlt)
                           ELSE EveryKth(InRange(tlt), tlt.step.n))
        /\ tlt.kind # "slice"
             => /\ Range(out) = Range(GivenLeadTimes(tlt))
                /\ Len(out) = Len(GivenLeadTimes(tlt))
                /\ \A k \in 1..(Len(out) - 1) : out[k] <= out[k + 1]
                /\ result.targets =
                     ISelTime(Recentred,
                              [k \in 1..Len(out) |->
                                 CHOOSE i \in 1..Len(dataset.time) : LeadTimeAt(i) = out[k]])

\* two distinct lead times are selected from a dataset that does not start at zero,
\* the last original timestep among them
C2_Witness ==
  /\ WindowReturned
  /\ args.target_lead_times.kind = "list"
  /\ dataset.time[1] # 0
  /\ Len(result.targets.time) = 2
  /\ result.targets.time[1] < result.targets.time[2]
  /\ result.targets.time[2] = TargetDurationOf(args.target_lead_times)
  /\ result.targets.vars["tp"].data[<<1, 2>>] = dataset.vars["tp"].data[<<1, Len(dataset.time)>>]

\* C6: in climate mode on a dataset of at least three timesteps the inputs are the
\* first two timesteps and the targets the third, with the original time
\* coordinate, whatever the lead times and the input duration.
C6_ClimateWindow ==
  (Done("extract_input_target_times") /\ args.climate /\ Len(dataset.time) >= 3)
  => /\ result.status = "ok" \/ args.target_lead_times = List(<<>>)
     /\ result.status = "ok"
          => /\ result.inputs = ISelTime(dataset, <<1, 2>>)
             /\ result.targets = ISelTime(dataset, <<3>>)
             /\ result.inputs.time = <<dataset.time[1], dataset.time[2]>>
             /\ result.targets.time = <<dataset.time[3]>>

\* a climate call whose lead times, honoured, would have selected other timesteps
C6_Witness ==
  /\ Returned("extract_input_target_times")
  /\ args.climate
  /\ Len(dataset.time) = 4
  /\ dataset.time[1] = -1
  /\ args.target_lead_times = List(<<TD(1, "ns"), TD(2, "ns")>>)
  /\ Timedelta(args.input_duration) = 1
  /\ result.targets.time = <<dataset.time[3]>>

OverlappingCall ==
  /\ Done("extract_inputs_targets_forcings")
  /\ args.target_variables \cap args.forcing_variables # {}

\* C5 as stated: whenever the target and forcing variable sets share a name the
\* call fails with a validation error, for every dataset and every other argument.
C5_OverlapAsStated == OverlappingCall => result.status = "ValueError"

\* the steps before the overlap check succeed: the levels are in the dataset, the
\* coordinates the requested forcings need are there, datetime can be dropped, and
\* the window can be cut
StepsBeforeCheckSucceed ==
  /\ Range(args.pressure_levels) \subseteq Range(dataset.level)
  /\ HasCoord(dataset, "datetime")
  /\ args.forcing_variables \cap DERIVED_VARS # {}
       => HasCoord(dataset, "lon") /\ dataset.datetime.batched
  /\ TISR \in args.forcing_variables => HasCoord(dataset, "lon") /\ HasCoord(dataset, "lat")
  /\ args.target_lead_times # List(<<>>)
  /\ (args.target_lead_times.kind # "slice" /\ ~args.climate)
       => \A x \in Range(GivenLeadTimes(args.target_lead_times)) :
            \E i \in 1..Len(dataset.time) : LeadTimeAt(i) = x

\* C5, amended: whenever the two sets share a name the call never returns a
\* triple; it fails with the overlap validation error when the steps before the
\* check succeed, and otherwise with the error of the step that failed, never
\* with an error of the projections that follow the check.
C5_Overlap ==
  OverlappingCall
  => /\ result.status # "ok"
     /\ StepsBeforeCheckSucceed => result.status = "ValueError" /\ result.where = "overlap"
     /\ ~StepsBeforeCheckSucceed => result.where # "overlap"
     /\ result.where # "variables"

\* an overlap that is only partial, on a call that would otherwise have returned
C5_Witness ==
  /\ OverlappingCall
  /\ ~args.climate
  /\ args.forcing_variables = {"year_progress_sin", "t2m"}
  /\ args.target_variables = {"t2m"}
  /\ args.input_variables = {"tp", "t2m"}
  /\ result.status = "ValueError" /\ result.where = "overlap"

ExtenderReturned == Returned("extend_dataset_in_time")

\* the datetime the original time coordinate implies at timestep i
ImpliedDatetime(i) == dataset.datetime.values[1] + dataset.time[i] - dataset.time[1]

\* C8: after an extension the first n entries of the new time coordinate are the
\* original time coordinate, whatever its start offset, and the first n entries of
\* the new datetime coordinate are the original datetimes; a dataset whose
\* datetimes the extension would not reproduce makes the call fail.
C8_PrefixPreserved ==
  /\ ExtenderReturned
       => /\ Len(result.ds.time) >= Len(dataset.time)
          /\ SubSeq(result.ds.time, 1, Len(dataset.time)) = dataset.time
          /\ HasCoord(dataset, "datetime")
               => /\ HasCoord(result.ds, "datetime")
                  /\ SubSeq(result.ds.datetime.values, 1, Len(dataset.time))
                       = dataset.datetime.values
  /\ (Done("extend_dataset_in_time") /\ HasCoord(dataset, "datetime")
        /\ \E i \in 1..Len(dataset.time) : dataset.datetime.values[i] # ImpliedDatetime(i))
       => result.status # "ok"

\* an extension by two timesteps of a dataset that starts at a negative offset
C8_Witness ==
  /\ ExtenderReturned
  /\ dataset.time = <<-2, 0>>
  /\ result.ds.time = <<-2, 0, 2, 4>>
  /\ result.ds.datetime.values[1] = dataset.datetime.values[1]
  /\ result.ds.datetime.values[4] = dataset.datetime.values[1] + 6

\* the variables the extender drops and recomputes
RecomputedVars == SUPPORTED_FORCING_VARS \cup {"day_progress", "year_progress"}

\* the time-indexed variables that are carried over
CarriedVars == {v \in Names(dataset) \ RecomputedVars : HasDim(dataset.vars[v], "time")}

LeadsWithBatchTime(a) == Len(a.dims) >= 2 /\ a.dims[1] = "batch" /\ a.dims[2] = "time"

LeadsWithTime(a) == Len(a.dims) >= 1 /\ a.dims[1] = "time"

\* the extended array holds the original at its first n timesteps and zero later
PrefixThenZero(new, old) ==
  LET t == IndexOf(old.dims, "time")
  IN /\ new.dims = old.dims
     /\ \A ix \in DOMAIN new.data :
          new.data[ix] = IF ix[t] <= old.shape[t] THEN old.data[ix] ELSE 0

\* a dataset the extender has no other reason to refuse: at least two regularly
\* spaced timesteps, longitudes, batched datetimes that follow the time coordinate,
\* and the supported forcing set
Extendable ==
  /\ Len(dataset.time) >= 2
  /\ RegularlySpaced(dataset.time)
  /\ HasCoord(dataset, "lon")
  /\ HasCoord(dataset, "datetime") /\ dataset.datetime.batched
  /\ \A i \in 1..Len(dataset.time) : dataset.datetime.values[i] = ImpliedDatetime(i)
  /\ args.forcing_variables = SUPPORTED_FORCING_VARS

Extending ==
  /\ Done("extend_dataset_in_time")
  /\ Len(dataset.time) < args.required_number_of_steps

C10_LengthAsStated ==
  (Extending /\ Len(dataset.time) >= 1 /\ RegularlySpaced(dataset.time)
     /\ HasCoord(dataset, "lon")
     /\ HasCoord(dataset, "datetime") /\ dataset.datetime.batched
     /\ (\A i \in 1..Len(dataset.time) : dataset.datetime.values[i] = ImpliedDatetime(i))
     /\ (\A v \in CarriedVars : LeadsWithBatchTime(dataset.vars[v]))
     /\ args.forcing_variables = SUPPORTED_FORCING_VARS)
  => /\ result.status = "ok"
     /\ Len(result.ds.time) = args.required_number_of_steps

\* C10, amended: for every regularly spaced dataset of at least two and fewer than
\* required_number_of_steps timesteps that has longitudes, batched datetimes
\* following its time coordinate and time-indexed variables led by (batch, time),
\* and the supported forcing set, the call returns; whenever it returns, the time
\* and datetime coordinates have required_number_of_steps entries, every
\* time-indexed variable, the six recomputed progress variables among them, has
\* that length along time, and every variable without a time dimension is the
\* original.  A dataset of a single timestep is refused.
C10_Length ==
  /\ (Extending /\ Extendable /\ \A v \in CarriedVars : LeadsWithBatchTime(dataset.vars[v]))
       => result.status = "ok"
  /\ ExtenderReturned
       => /\ Len(result.ds.time) = args.required_number_of_steps
          /\ Len(result.ds.datetime.values) = args.required_number_of_steps
          /\ RecomputedVars \subseteq Names(result.ds)
          /\ Names(dataset) \subseteq Names(result.ds)
          /\ \A v \in Names(result.ds) :
               HasDim(result.ds.vars[v], "time")
                 => SizeOf(result.ds.vars[v], "time") = args.required_number_of_steps
          /\ \A v \in Names(dataset) :
               ~HasDim(dataset.vars[v], "time") => result.ds.vars[v] = dataset.vars[v]
  /\ (Done("extend_dataset_in_time") /\ Len(dataset.time) < 2) => result.status # "ok"

\* a three-step dataset with stale progress variables extended to four steps
C10_Witness ==
  /\ ExtenderReturned
  /\ Len(dataset.time) = 3
  /\ args.required_number_of_steps = 4
  /\ "day_progress_sin" \in Names(dataset)
  /\ result.ds.vars["day_progress_sin"].shape = <<1, 4, 2>>
  /\ result.ds.vars["year_progress"].shape = <<1, 4>>
  /\ result.ds.vars["z"].shape = <<1, 4, 2>>
  /\ result.ds.vars["land_sea_mask"] = dataset.vars["land_sea_mask"]

\* C7: the climate orchestrator extends the dataset only when it has fewer than
\* three timesteps; with three or more it delegates directly to
\* extract_inputs_targets_forcings in climate mode.
C7_ExtendsOnlyWhenShort ==
  Done("extract_inputs_targets_forcings_climate")
  => /\ result.extended => Len(dataset.time) < ClimateSteps
     /\ Len(dataset.time) >= ClimateSteps => ~result.extended

\* the features of a family as featurize_progress lays them out over the
\* datetimes of the dataset before the call
FeaturesFilled(family, name, before, after) ==
  /\ family \subseteq Names(after)
  /\ \A v \in family :
       /\ after.vars[v].dims[1] = (IF "batch" \in DimsOf(before) THEN "batch" ELSE "time")
       /\ Contains(after.vars[v].dims, "time")
       /\ SizeOf(after.vars[v], "time") = Len(before.datetime.values)
       /\ after.vars[v].shape = after.vars[name].shape
  /\ \A ix \in DOMAIN after.vars[name].data :
       /\ after.vars[name \o "_sin"].data[ix] = SinOf(after.vars[name].data[ix])
       /\ after.vars[name \o "_cos"].data[ix] = CosOf(after.vars[name].data[ix])

\* the variables of a family are the ones the dataset held before the call
FeaturesKept(family, before, after) ==
  /\ Names(after) \cap family = Names(before) \cap family
  /\ \A v \in Names(before) \cap family : after.vars[v] = before.vars[v]

\* C11: add_derived_vars inserts the year-progress features only when
\* year_progress is not a data variable and the day-progress features only when
\* day_progress is not; every other variable is left as it was; a second call on
\* the same dataset changes nothing; a call on a dataset without the datetime or
\* the lon coordinate fails and adds no variable.
C11_OnlyFillsAbsent ==
  Done("add_derived_vars")
  => LET before == result.before
     IN /\ (~HasCoord(before, "datetime") \/ ~HasCoord(before, "lon"))
             => result.status = "ValueError" /\ dataset = before
        /\ result.status = "ok"
             => /\ IF YEAR_PROGRESS \in Names(before)
                   THEN FeaturesKept(YearFeatures, before, dataset)
                   ELSE FeaturesFilled(YearFeatures, YEAR_PROGRESS, before, dataset)
                /\ IF DAY_PROGRESS \in Names(before)
                   THEN FeaturesKept(DayFeatures, before, dataset)
                   ELSE FeaturesFilled(DayFeatures, DAY_PROGRESS, before, dataset)
                /\ Names(dataset) \ DERIVED_VARS = Names(before) \ DERIVED_VARS
                /\ \A v \in Names(before) \ DERIVED_VARS : dataset.vars[v] = before.vars[v]
                /\ dataset.coords = before.coords
                /\ dataset.time = before.time
        /\ args.calls = 1 => before = args.original
        /\ args.calls >= 2 => dataset = before

\* a dataset holding a stale year_progress and no day progress was called twice:
\* the first call added the day-progress features and kept the stale
\* year_progress, the second call changed nothing
C11_Witness ==
  /\ Returned("add_derived_vars")
  /\ args.calls = 2
  /\ YEAR_PROGRESS \in Names(args.original)
  /\ \E ix \in DOMAIN args.original.vars[YEAR_PROGRESS].data :
       args.original.vars[YEAR_PROGRESS].data[ix] = 7
  /\ DayFeatures \cap Names(args.original) = {}
  /\ DayFeatures \subseteq Names(dataset)
  /\ dataset.vars[YEAR_PROGRESS] = args.original.vars[YEAR_PROGRESS]
  /\ dataset = result.before

\* C12: in climate mode a dataset of fewer than 3 timesteps makes
\* extract_input_target_times fail; it never returns fewer than 2 input timesteps
\* or an empty target window.
C12_ShortClimateFails ==
  (Done("extract_input_target_times") /\ args.climate)
  => /\ Len(dataset.time) < ClimateSteps => result.status # "ok"
     /\ result.status = "ok"
          => /\ NumSteps(result.inputs) >= 2
             /\ NumSteps(result.targets) >= 1


=============================================================================